---- MODULE Spec2Model ----
(***************************************************************************)
(* Model of the baby-names pipeline: CsvImporterService.import() (rows ->  *)
(* MySQL through BabyName.bulkCreate) and HubSpotSyncService.sync()        *)
(* (MySQL pages -> HubSpot batch upsert).                                  *)
(*                                                                         *)
(* Text is modelled as a sequence of one-character strings; a csv row is a *)
(* function from the column names it has to their text.  Both services are *)
(* single-threaded async code: an action is the synchronous run of code    *)
(* between two awaits (or one stream event handler).                       *)
(***************************************************************************)
EXTENDS Integers, Sequences, FiniteSets, TLC

VARIABLES
    \* ---- HubSpotSyncService.sync ----
    maxContactsToSync,  \* parseInt(process.env.HUBSPOT_SYNC_LIMIT || '900')
    storeCount,         \* number of rows committed in BabyNames before the run
    totalSynced,
    currentBatch,
    offset,
    fetchLimit,
    records,            \* the page returned by the last findAll
    recIdx,             \* index in records of the row the for-loop is at
    sendSite,           \* which sendBatchToHubSpot call site is awaited
    syncPc,
    throttled,          \* number of 429 answers so far in the run
    syncResult,
    syncError,
    syncClosed,         \* number of sequelize.close() calls of the run
    trace,              \* history: page fetches, posts, responses, waits
    \* ---- CsvImporterService.import ----
    input,              \* the rows the csv stream will emit, in order
    pos,                \* number of rows already emitted as 'data'
    csvBatchSize,       \* this.batchSize of CsvImporterService
    batch,
    totalInserted,
    rowCount,
    paused,             \* stream.pause() called and not yet resumed
    pendingWrites,      \* bulkCreate calls started and not yet settled
    table,              \* rows of the BabyNames table
    importPc,
    importResult,
    importError,
    importClosed,
    skipped,            \* history: rows rejected by validation
    writeLog,           \* history: bulkCreate calls in the order issued
    writeResults,       \* history: settled bulkCreate calls
    run,                \* 1 = first import() run, 2 = second run
    firstRun,           \* summary of the first run, kept for the second
    downloadDir,        \* the files of this.downloadDir, as readdirSync lists them
    foundFile           \* const foundFile of import(): <<>> before the lookup

syncVars == <<maxContactsToSync, storeCount, totalSynced, currentBatch, offset,
              fetchLimit, records, recIdx, sendSite, syncPc, throttled,
              syncResult, syncError, syncClosed, trace>>

importVars == <<input, pos, csvBatchSize, batch, totalInserted, rowCount,
                paused, pendingWrites, table, importPc, importResult,
                importError, importClosed, skipped, writeLog, writeResults,
                run, firstRun, downloadDir, foundFile>>

vars == <<syncVars, importVars>>

----------------------------------------------------------------------------
(* Bounds of the model *)

MaxThrottles == 2     \* 429 answers allowed in one sync() run
MaxPages == 2         \* store sizes go up to MaxPages full pages (and a bit)
MaxRows == 4          \* length of the csv input
MaxBatchSize == 2     \* largest configured import threshold
MaxText == 3          \* longest Name / Sex text of the single-row inputs

(* Program constants *)

batchSize == 100      \* HubSpotSyncService.batchSize
pageSize == 5000      \* sync(): const pageSize
retryDelayMs == 1000  \* sendBatchToHubSpot: setTimeout(resolve, 1000)

Min(a, b) == IF a <= b THEN a ELSE b
Max(a, b) == IF a >= b THEN a ELSE b

----------------------------------------------------------------------------
(* Text helpers: String.prototype.trim / toLowerCase / replace(/\s+/g,'.') *)

Whitespace == {" "}

LowerChar(c) ==
    CASE c = "A" -> "a"
      [] c = "B" -> "b"
      [] c = "M" -> "m"
      [] c = "F" -> "f"
      [] c = "X" -> "x"
      [] OTHER -> c

toLowerCase(s) == [i \in 1..Len(s) |-> LowerChar(s[i])]

RECURSIVE TrimStart(_)
TrimStart(s) ==
    IF s # <<>> /\ Head(s) \in Whitespace THEN TrimStart(Tail(s)) ELSE s

RECURSIVE TrimEnd(_)
TrimEnd(s) ==
    IF s # <<>> /\ s[Len(s)] \in Whitespace
    THEN TrimEnd(SubSeq(s, 1, Len(s) - 1)) ELSE s

trim(s) == TrimEnd(TrimStart(s))

\* s.replace(/\s+/g, '.'): every maximal run of whitespace becomes one '.'
RECURSIVE ReplaceWhitespaceRuns(_)
ReplaceWhitespaceRuns(s) ==
    IF s = <<>> THEN <<>>
    ELSE IF Head(s) \in Whitespace
         THEN <<".">> \o ReplaceWhitespaceRuns(TrimStart(s))
         ELSE <<Head(s)>> \o ReplaceWhitespaceRuns(Tail(s))

----------------------------------------------------------------------------
(* The BabyNames table as sync() reads it.  The run does not modify the    *)
(* table, so it is given by its row count; row i (in ascending id) is      *)
(* StoreRow(i).                                                            *)

NameLetters == <<"a", "b", "A", "B">>

RECURSIVE NameOf(_)
NameOf(i) ==
    IF i <= 0 THEN <<>>
    ELSE NameOf((i - 1) \div 4) \o <<NameLetters[((i - 1) % 4) + 1]>>

StoreRow(i) ==
    [id |-> i, name |-> NameOf(i), sex |-> IF i % 2 = 1 THEN <<"M">> ELSE <<"F">>]

\* The query of sync() has no ORDER BY, so the order of the rows is the order
\* of the access path MySQL takes: the primary key (ascending id) or the
\* index idx_name_sex (by name, compared by code point; names are unique
\* here, so sex and id never decide).
ScanOrders == {"PRIMARY", "idx_name_sex"}

\* the digits of NameLetters in code-point order: A, B, a, b
CollationDigits == <<3, 4, 1, 2>>

\* number of ids <= n among the ids lo..hi and the ids whose name extends
\* the name of one of them (the children of id p are 4p+1 .. 4p+4)
RECURSIVE CountFrom(_, _, _)
CountFrom(lo, hi, n) ==
    IF lo > n THEN 0
    ELSE Min(hi, n) - lo + 1 + CountFrom(4 * lo + 1, 4 * hi + 4, n)

\* the id at place k, in name order, among the ids <= n whose name extends
\* NameOf(p) by a letter from the j-th on
RECURSIVE KthUnder(_, _, _, _)
KthUnder(p, j, k, n) ==
    LET c == 4 * p + CollationDigits[j]
        cnt == CountFrom(c, c, n)
    IN IF k > cnt THEN KthUnder(p, j + 1, k - cnt, n)
       ELSE IF k = 1 THEN c
       ELSE KthUnder(c, 1, k - 1, n)

\* the row at place p of a scan of the table
RowAt(scan, p) ==
    IF scan = "PRIMARY" THEN StoreRow(p)
    ELSE StoreRow(KthUnder(0, 1, p, storeCount))

\* BabyName.findAll({limit, offset, raw: true}), answered by scan `scan`
findAll(limit, off, scan) ==
    [k \in 1..Min(limit, Max(0, storeCount - off)) |-> RowAt(scan, off + k)]

----------------------------------------------------------------------------
(* HubSpotSyncService *)

EmailDomain == <<"@babynamesdemo.com">>

formatContactForHubSpot(babyName) ==
    LET email == ReplaceWhitespaceRuns(toLowerCase(babyName.name))
                 \o <<".">> \o toLowerCase(babyName.sex) \o EmailDomain
    IN [properties |->
          [email |-> email,
           firstname |-> babyName.name,
           lastname |-> IF babyName.sex = <<"M">> THEN "Male" ELSE "Female",
           hs_lead_status |-> "NEW",
           lifecyclestage |-> "subscriber"]]

\* the request body sendBatchToHubSpot posts
UpsertInputs(b) ==
    [i \in 1..Len(b) |->
        [idProperty |-> "email",
         id |-> b[i].properties.email,
         properties |-> b[i].properties]]

FetchEvent(limit, off) == [type |-> "fetch", limit |-> limit, offset |-> off]
PostEvent(b) == [type |-> "post", inputs |-> UpsertInputs(b)]
RespEvent(status) == [type |-> "resp", status |-> status]
WaitEvent == [type |-> "wait", ms |-> retryDelayMs]

\* sync(): the for-loop over a page, run from row i until the loop awaits a
\* send ("send"), breaks on the limit ("limit") or runs out of rows ("end").
\* total does not change inside one such run, so the rows pushed are the
\* next `need` rows when that many are left, and all the rows left otherwise.
ForLoop(recs, i, b, total, max) ==
    LET avail == Len(recs) - i + 1
        need == Max(1, batchSize - Len(b))
        Pushed(n) == [k \in 1..n |-> formatContactForHubSpot(recs[i + k - 1])]
    IN IF avail <= 0 THEN [exit |-> "end", batch |-> b, idx |-> i]
       ELSE IF total >= max THEN [exit |-> "limit", batch |-> b, idx |-> i]
       ELSE IF avail >= need
            THEN [exit |-> "send", batch |-> b \o Pushed(need),
                  idx |-> i + need - 1]
            ELSE [exit |-> "end", batch |-> b \o Pushed(avail),
                  idx |-> Len(recs) + 1]

\* sync() returns totalSynced; finally { sequelize.close() }
SyncReturn(total, b, tr) ==
    /\ totalSynced' = total
    /\ currentBatch' = b
    /\ syncPc' = "done"
    /\ syncResult' = <<total>>
    /\ syncClosed' = syncClosed + 1
    /\ trace' = tr
    /\ UNCHANGED <<sendSite, offset>>

\* await this.sendBatchToHubSpot(currentBatch) issued from call site `site`
SyncSend(total, b, site, tr) ==
    /\ totalSynced' = total
    /\ currentBatch' = b
    /\ sendSite' = site
    /\ syncPc' = "sending"
    /\ trace' = Append(tr, PostEvent(currentBatch'))
    /\ UNCHANGED <<syncResult, syncClosed, offset>>

\* variant of NextOffset: the offset moves by the number of rows asked for
NextOffset_ByLimit(off) == off + fetchLimit

\* sync(): offset += pageSize
NextOffset(off) == off + pageSize

\* variant of AfterLoop: the limit branch sends without looking at the length
AfterLoop_NoEmptyCheck(total, b, tr) ==
    IF total >= maxContactsToSync
    THEN SyncSend(total, b, "limit", tr)
    ELSE /\ totalSynced' = total
         /\ currentBatch' = b
         /\ offset' = NextOffset(offset)
         /\ syncPc' = "loop"
         /\ trace' = tr
         /\ UNCHANGED <<sendSite, syncResult, syncClosed>>

\* variant of AfterLoop: a partial batch is sent at the end of every page
AfterLoop_FlushPartial(total, b, tr) ==
    IF total >= maxContactsToSync \/ Len(b) > 0
    THEN IF Len(b) > 0
         THEN SyncSend(total, b, "limit", tr)
         ELSE SyncReturn(total, b, tr)
    ELSE /\ totalSynced' = total
         /\ currentBatch' = b
         /\ offset' = NextOffset(offset)
         /\ syncPc' = "loop"
         /\ trace' = tr
         /\ UNCHANGED <<sendSite, syncResult, syncClosed>>

\* sync(): the code after the for-loop ("Break if limit reached", offset step)
AfterLoop(total, b, tr) ==
    IF total >= maxContactsToSync
    THEN IF Len(b) > 0
         THEN SyncSend(total, b, "limit", tr)
         ELSE SyncReturn(total, b, tr)
    ELSE /\ totalSynced' = total
         /\ currentBatch' = b
         /\ offset' = NextOffset(offset)
         /\ syncPc' = "loop"
         /\ trace' = tr
         /\ UNCHANGED <<sendSite, syncResult, syncClosed>>

\* sync(): run the for-loop from row i, then whatever follows it
RunLoop(recs, i, b, total, tr) ==
    LET r == ForLoop(recs, i, b, total, maxContactsToSync)
    IN /\ recIdx' = r.idx
       /\ IF r.exit = "send"
          THEN SyncSend(total, r.batch, "loop", tr)
          ELSE AfterLoop(total, r.batch, tr)

\* variant of OnEmptyPage: the loop is left without the final flush
OnEmptyPage_NoFlush(total, b, tr) == SyncReturn(total, b, tr)

\* sync(): if (records.length === 0) { "Process final batch if any"; break }
OnEmptyPage(total, b, tr) ==
    IF Len(b) > 0
    THEN SyncSend(total, b, "empty", tr)
    ELSE SyncReturn(total, b, tr)

\* sync(): sequelize.authenticate() succeeded; locals initialised
SyncConnect ==
    /\ syncPc = "connecting"
    /\ syncPc' = "loop"
    /\ UNCHANGED <<maxContactsToSync, storeCount, totalSynced, currentBatch,
                   offset, fetchLimit, records, recIdx, sendSite, throttled,
                   syncResult, syncError, syncClosed, trace>>
    /\ UNCHANGED importVars

\* sync(): sequelize.authenticate() rejects; catch { throw } finally { close }
SyncConnectFails ==
    /\ syncPc = "connecting"
    /\ syncPc' = "failed"
    /\ syncError' = <<"DB_CONNECT">>
    /\ syncClosed' = syncClosed + 1
    /\ UNCHANGED <<maxContactsToSync, storeCount, totalSynced, currentBatch,
                   offset, fetchLimit, records, recIdx, sendSite, throttled,
                   syncResult, trace>>
    /\ UNCHANGED importVars

\* sync(): BabyName.findAll rejects; catch { throw } finally { close }
SyncFetchFails ==
    /\ syncPc = "fetching"
    /\ syncPc' = "failed"
    /\ syncError' = <<"DB_QUERY">>
    /\ syncClosed' = syncClosed + 1
    /\ UNCHANGED <<maxContactsToSync, storeCount, totalSynced, currentBatch,
                   offset, fetchLimit, records, recIdx, sendSite, throttled,
                   syncResult, trace>>
    /\ UNCHANGED importVars

\* variant of FetchLimit: a whole page is always requested
FetchLimit_WholePage(total) == pageSize

\* sync(): remainingToSync, fetchLimit
FetchLimit(total) == Min(pageSize, maxContactsToSync - total)

\* sync(): while-condition, fetchLimit, BabyName.findAll issued
SyncFetch ==
    /\ syncPc = "loop"
    /\ IF totalSynced < maxContactsToSync
       THEN /\ fetchLimit' = FetchLimit(totalSynced)
            /\ trace' = Append(trace, FetchEvent(fetchLimit', offset))
            /\ syncPc' = "fetching"
            /\ UNCHANGED <<totalSynced, currentBatch, offset, sendSite,
                           syncResult, syncClosed>>
       ELSE /\ SyncReturn(totalSynced, currentBatch, trace)
            /\ UNCHANGED fetchLimit
    /\ UNCHANGED <<maxContactsToSync, storeCount, records, recIdx, throttled,
                   syncError>>
    /\ UNCHANGED importVars

\* sync(): findAll resolved; empty page -> final flush and break, else for-loop
SyncPage ==
    /\ syncPc = "fetching"
    /\ \E scan \in ScanOrders : records' = findAll(fetchLimit, offset, scan)
    /\ IF Len(records') = 0
       THEN /\ recIdx' = recIdx
            /\ OnEmptyPage(totalSynced, currentBatch, trace)
       ELSE RunLoop(records', 1, currentBatch, totalSynced, trace)
    /\ UNCHANGED <<maxContactsToSync, storeCount, fetchLimit, throttled,
                   syncError>>
    /\ UNCHANGED importVars

\* variant of AddSynced: a full batch is counted whatever was sent
AddSynced_FullBatch(total, b) == total + batchSize

\* sync(): totalSynced += currentBatch.length
AddSynced(total, b) == total + Len(b)

\* sendBatchToHubSpot: the post succeeded; sync() continues after the await:
\* totalSynced += currentBatch.length; currentBatch = []; loop on or break
RespondOk ==
    /\ syncPc = "sending"
    /\ LET total == AddSynced(totalSynced, currentBatch)
           tr == Append(trace, RespEvent(200))
       IN IF sendSite = "loop"
          THEN RunLoop(records, recIdx + 1, <<>>, total, tr)
          ELSE /\ recIdx' = recIdx
               /\ SyncReturn(total, <<>>, tr)
    /\ UNCHANGED <<maxContactsToSync, storeCount, fetchLimit, records,
                   throttled, syncError>>
    /\ UNCHANGED importVars

\* sync(): catch { handleError; throw } finally { sequelize.close() }
SyncFail(code, status) ==
    /\ syncPc' = "failed"
    /\ syncError' = <<code>>
    /\ syncClosed' = syncClosed + 1
    /\ trace' = Append(trace, RespEvent(status))
    /\ UNCHANGED <<maxContactsToSync, storeCount, totalSynced, currentBatch,
                   offset, fetchLimit, records, recIdx, sendSite, throttled,
                   syncResult>>
    /\ UNCHANGED importVars

\* variant of Respond401: the 401 is handled like a throttle (wait, retry)
Respond401_Retries ==
    /\ syncPc = "sending"
    /\ throttled < MaxThrottles
    /\ throttled' = throttled + 1
    /\ trace' = trace \o <<RespEvent(401), WaitEvent>>
    /\ syncPc' = "waiting"
    /\ UNCHANGED <<maxContactsToSync, storeCount, totalSynced, currentBatch,
                   offset, fetchLimit, records, recIdx, sendSite, syncResult,
                   syncError, syncClosed>>
    /\ UNCHANGED importVars

\* sendBatchToHubSpot: 401 -> throw AppError('HUBSPOT_AUTH_ERROR')
Respond401 ==
    /\ syncPc = "sending"
    /\ SyncFail("HUBSPOT_AUTH_ERROR", 401)

\* variant of Respond400: the rejected batch is sent again after the wait
Respond400_Retries ==
    /\ syncPc = "sending"
    /\ throttled < MaxThrottles
    /\ throttled' = throttled + 1
    /\ trace' = trace \o <<RespEvent(400), WaitEvent>>
    /\ syncPc' = "waiting"
    /\ UNCHANGED <<maxContactsToSync, storeCount, totalSynced, currentBatch,
                   offset, fetchLimit, records, recIdx, sendSite, syncResult,
                   syncError, syncClosed>>
    /\ UNCHANGED importVars

\* sendBatchToHubSpot: 400 -> log the payload, throw error
Respond400 ==
    /\ syncPc = "sending"
    /\ SyncFail("HTTP_400", 400)

\* failures of a post that are neither 401, 429 nor 400: another status, or
\* no response at all (transport error), written as status 0
OtherStatuses == {0, 500}

\* the error object axios rejects with, by its response status
ErrorOf(status) == IF status = 0 THEN "TRANSPORT" ELSE "HTTP_OTHER"

\* variant of RespondOther: the failed batch is sent again after the wait
RespondOther_Retries ==
    /\ syncPc = "sending"
    /\ throttled < MaxThrottles
    /\ throttled' = throttled + 1
    /\ \E status \in OtherStatuses :
          trace' = trace \o <<RespEvent(status), WaitEvent>>
    /\ syncPc' = "waiting"
    /\ UNCHANGED <<maxContactsToSync, storeCount, totalSynced, currentBatch,
                   offset, fetchLimit, records, recIdx, sendSite, syncResult,
                   syncError, syncClosed>>
    /\ UNCHANGED importVars

\* sendBatchToHubSpot: any other failure -> log, throw error
RespondOther ==
    /\ syncPc = "sending"
    /\ \E status \in OtherStatuses : SyncFail(ErrorOf(status), status)

\* variant of Respond429: the retry is posted while the call is still out
Respond429_Overlapping ==
    /\ syncPc = "sending"
    /\ throttled < MaxThrottles
    /\ throttled' = throttled + 1
    /\ trace' = Append(trace, PostEvent(currentBatch))
    /\ syncPc' = "sending"
    /\ UNCHANGED <<maxContactsToSync, storeCount, totalSynced, currentBatch,
                   offset, fetchLimit, records, recIdx, sendSite, syncResult,
                   syncError, syncClosed>>
    /\ UNCHANGED importVars

\* variant of Respond429: a second throttle in the run is raised to the caller
Respond429_GivesUp ==
    /\ syncPc = "sending"
    /\ throttled < MaxThrottles
    /\ IF throttled >= 1
       THEN /\ syncPc' = "failed"
            /\ syncError' = <<"RETRY_EXHAUSTED">>
            /\ syncClosed' = syncClosed + 1
            /\ trace' = Append(trace, RespEvent(429))
            /\ UNCHANGED throttled
       ELSE /\ throttled' = throttled + 1
            /\ trace' = trace \o <<RespEvent(429), WaitEvent>>
            /\ syncPc' = "waiting"
            /\ UNCHANGED <<syncError, syncClosed>>
    /\ UNCHANGED <<maxContactsToSync, storeCount, totalSynced, currentBatch,
                   offset, fetchLimit, records, recIdx, sendSite, syncResult>>
    /\ UNCHANGED importVars

\* variant of Respond429: the retry is issued at once, without the wait
Respond429_NoWait ==
    /\ syncPc = "sending"
    /\ throttled < MaxThrottles
    /\ throttled' = throttled + 1
    /\ trace' = trace \o <<RespEvent(429), PostEvent(currentBatch)>>
    /\ syncPc' = "sending"
    /\ UNCHANGED <<maxContactsToSync, storeCount, totalSynced, currentBatch,
                   offset, fetchLimit, records, recIdx, sendSite, syncResult,
                   syncError, syncClosed>>
    /\ UNCHANGED importVars

\* sendBatchToHubSpot: 429 -> log, start the one second wait
Respond429 ==
    /\ syncPc = "sending"
    /\ throttled < MaxThrottles
    /\ throttled' = throttled + 1
    /\ trace' = trace \o <<RespEvent(429), WaitEvent>>
    /\ syncPc' = "waiting"
    /\ UNCHANGED <<maxContactsToSync, storeCount, totalSynced, currentBatch,
                   offset, fetchLimit, records, recIdx, sendSite, syncResult,
                   syncError, syncClosed>>
    /\ UNCHANGED importVars

\* variant of RetryAfterWait: the timer never resolves the wait
RetryAfterWait_Dropped ==
    /\ syncPc = "waiting"
    /\ UNCHANGED vars

\* sendBatchToHubSpot: the wait is over, return this.sendBatchToHubSpot(batch)
RetryAfterWait ==
    /\ syncPc = "waiting"
    /\ syncPc' = "sending"
    /\ trace' = Append(trace, PostEvent(currentBatch))
    /\ UNCHANGED <<maxContactsToSync, storeCount, totalSynced, currentBatch,
                   offset, fetchLimit, records, recIdx, sendSite, throttled,
                   syncResult, syncError, syncClosed>>
    /\ UNCHANGED importVars

----------------------------------------------------------------------------
(* CsvImporterService *)

\* JavaScript truthiness of row[col]: the column exists and is not ''
HasText(row, col) == col \in DOMAIN row /\ row[col] # <<>>

\* variant of RowInvalid: only the Sex column is looked at
RowInvalid_SexOnly(row) == ~HasText(row, "Sex")

\* import(): if (!row.Name || !row.Sex)
RowInvalid(row) == ~HasText(row, "Name") \/ ~HasText(row, "Sex")

\* variant of ToRecord: the Sex text is compared without trimming it
ToRecord_NoSexTrim(row) ==
    [name |-> trim(row["Name"]),
     sex |-> IF row["Sex"] = <<"M">> THEN <<"M">> ELSE <<"F">>]

\* import(): the object pushed on the batch
ToRecord(row) ==
    [name |-> trim(row["Name"]),
     sex |-> IF trim(row["Sex"]) = <<"M">> THEN <<"M">> ELSE <<"F">>]

\* variant of BatchFull: the threshold has to be exceeded
BatchFull_Exceeds(b) == Len(b) > csvBatchSize

\* import(): if (batch.length >= this.batchSize)
BatchFull(b) == Len(b) >= csvBatchSize

\* variant of HasRemaining: only a full batch is flushed at the end
HasRemaining_FullOnly(b) == Len(b) >= csvBatchSize

\* import(), 'end' handler: if (batch.length > 0)
HasRemaining(b) == Len(b) > 0

\* variant of streamPause: the stream is left flowing
streamPause_Missing(p) == p

\* stream.pause() / stream.resume() on the flowing state of the csv stream
streamPause(p) == TRUE

\* variant of streamResume: the stream is left paused
streamResume_Missing(p) == p

streamResume(p) == FALSE

\* variant of AddInserted: the count is assigned instead of added
AddInserted_Assign(total, created) == Len(created)

\* import(): totalInserted += created.length
AddInserted(total, created) == total + Len(created)

\* variant of catchAction: every failed write rejects
catchAction_AllFatal(kind) == "reject"

\* what each catch around bulkCreate does: the threshold flush logs and
\* resumes the stream, the 'end' handler logs and rejects
catchAction(kind) == IF kind = "threshold" THEN "resume" ELSE "reject"

\* BabyName.init: the index idx_name_sex on (name, sex) is not declared unique
\* (the only unique key of BabyNames is the auto-increment id)
idx_name_sex_unique == FALSE

\* INSERT IGNORE of recs into tbl: a row is dropped only when it collides on a
\* unique key; the others get the next auto-increment id
RECURSIVE InsertIgnore(_, _)
InsertIgnore(tbl, recs) ==
    IF recs = <<>> THEN tbl
    ELSE LET r == Head(recs)
             collides == /\ idx_name_sex_unique
                         /\ \E k \in 1..Len(tbl) :
                               tbl[k].name = r.name /\ tbl[k].sex = r.sex
         IN IF collides THEN InsertIgnore(tbl, Tail(recs))
            ELSE InsertIgnore(
                    Append(tbl, [id |-> Len(tbl) + 1, name |-> r.name,
                                 sex |-> r.sex]),
                    Tail(recs))

\* BabyName.bulkCreate(recs, {ignoreDuplicates: true}) when it succeeds: the
\* new table, and the instances it resolves with (one per record passed)
bulkCreate(recs, tbl) ==
    [table |-> InsertIgnore(tbl, recs), created |-> recs]

RemoveAt(q, i) == SubSeq(q, 1, i - 1) \o SubSeq(q, i + 1, Len(q))

\* ---- the file lookup of import() ----

\* A file name is the sequence of its parts: an extension is one part, and so
\* is a directory prefix of a zip entry.  String.prototype.endsWith / includes
endsWith(f, part) == f # <<>> /\ f[Len(f)] = part

includes(f, part) == \E k \in 1..Len(f) : f[k] = part

\* Array.prototype.find, given the indices of the elements satisfying the
\* callback: <<the first of them>>, <<>> if there is none
Find(seq, hits) ==
    IF hits = {} THEN <<>>
    ELSE <<seq[CHOOSE k \in hits : \A j \in hits : k <= j]>>

\* the indices of the files of a listing whose name ends with ext
Ending(files, ext) == {k \in 1..Len(files) : endsWith(files[k].name, ext)}

\* the entries of the archives explored (AdmZip's getEntries())
CsvEntry == [entryName |-> <<"a", ".csv">>, isDirectory |-> FALSE]

BackupEntry == [entryName |-> <<"a", ".csv", ".bak">>, isDirectory |-> FALSE]

NestedCsvEntry == [entryName |-> <<"d/", "a", ".csv">>, isDirectory |-> FALSE]

OtherEntry == [entryName |-> <<"a", ".txt">>, isDirectory |-> FALSE]

DirEntry == [entryName |-> <<"a", ".csv", "/">>, isDirectory |-> TRUE]

ZipContents ==
    { <<>>, <<CsvEntry>>, <<OtherEntry>>, <<DirEntry>>, <<DirEntry, CsvEntry>>,
      <<NestedCsvEntry>>, <<BackupEntry>> }

\* the files explored: a csv file, an unrelated file, well-formed archives
CsvFile == [name |-> <<"a", ".csv">>, entries |-> <<>>]

OtherFile == [name |-> <<"a", ".txt">>, entries |-> <<>>]

ZipFiles == {[name |-> <<n, ".zip">>, entries |-> e] :
                n \in {"y", "z"}, e \in ZipContents}

Files == {CsvFile, OtherFile} \cup ZipFiles

\* most files of a directory listing explored
MaxFiles == 2

\* the listings readdirSync can return: any order, no name twice
Listings ==
    {d \in UNION {[1..n -> Files] : n \in 0..MaxFiles} :
        \A i, j \in 1..Len(d) : d[i].name = d[j].name => i = j}

\* findCsvFile with the two searches exchanged
findCsvFile_CsvFirst(files) ==
    LET zipFile == Find(files, Ending(files, ".zip"))
        csvFile == Find(files, Ending(files, ".csv"))
    IN IF csvFile # <<>> THEN [error |-> <<>>, file |-> csvFile]
       ELSE IF zipFile # <<>> THEN [error |-> <<>>, file |-> zipFile]
       ELSE [error |-> <<"FILE_NOT_FOUND">>, file |-> <<>>]

\* findCsvFile(): the first .zip of the listing, else the first .csv, else
\* AppError('FILE_NOT_FOUND')
findCsvFile(files) ==
    LET zipFile == Find(files, Ending(files, ".zip"))
        csvFile == Find(files, Ending(files, ".csv"))
    IN IF zipFile # <<>> THEN [error |-> <<>>, file |-> zipFile]
       ELSE IF csvFile # <<>> THEN [error |-> <<>>, file |-> csvFile]
       ELSE [error |-> <<"FILE_NOT_FOUND">>, file |-> <<>>]

\* the name of an entry without its directory prefix
basename(entryName) == SelectSeq(entryName, LAMBDA part : part # "d/")

\* extractZip(zipPath): the first entry that is no directory and whose name
\* contains '.csv', else AppError('CSV_NOT_IN_ZIP').  extractEntryTo(entry,
\* downloadDir, false, true) writes the entry under its base name; the path
\* returned is downloadDir joined with the whole entry name.
extractZip(zipFile) ==
    LET entries == zipFile.entries
        csvEntry == Find(entries,
                         {k \in 1..Len(entries) :
                             /\ includes(entries[k].entryName, ".csv")
                             /\ ~entries[k].isDirectory})
    IN IF csvEntry = <<>>
       THEN [error |-> <<"CSV_NOT_IN_ZIP">>, written |-> <<>>,
             extractedPath |-> <<>>]
       ELSE [error |-> <<>>, written |-> <<basename(csvEntry[1].entryName)>>,
             extractedPath |-> csvEntry[1].entryName]

\* fs.existsSync of a path below the download directory
existsSync(path, files) == \E k \in 1..Len(files) : files[k].name = path

\* the listings after a file of that name was written: an existing file is
\* overwritten, a new one appears at any place of the listing
Written(files, name) ==
    IF existsSync(name, files) THEN {files}
    ELSE {SubSeq(files, 1, i) \o <<[name |-> name, entries |-> <<>>]>>
              \o SubSeq(files, i + 1, Len(files)) : i \in 0..Len(files)}

\* import() from findCsvFile() to the existsSync check: the error thrown or
\* <<>>, the file found, and the directory afterwards
Lookup(files) ==
    LET found == findCsvFile(files)
        fail(e, f, d) == [error |-> <<e>>, foundFile |-> f, files |-> d]
        pass(f, d) == [error |-> <<>>, foundFile |-> f, files |-> d]
        checked(path, f, d) == IF existsSync(path, d) THEN pass(f, d)
                               ELSE fail("FILE_NOT_FOUND", f, d)
    IN IF found.error # <<>> THEN {fail(found.error[1], <<>>, files)}
       ELSE LET f == found.file[1]
            IN IF ~endsWith(f.name, ".zip")
               THEN {checked(f.name, <<f.name>>, files)}
               ELSE LET x == extractZip(f)
                    IN IF x.error # <<>>
                       THEN {fail(x.error[1], <<f.name>>, files)}
                       ELSE {checked(x.extractedPath, <<f.name>>, d) :
                                d \in Written(files, x.written[1])}

\* import(): sequelize.authenticate() succeeded, the csv file was found and
\* the stream was created with its three handlers
ImportConnect ==
    /\ importPc = "connecting"
    /\ \E o \in Lookup(downloadDir) :
          /\ o.error = <<>>
          /\ foundFile' = o.foundFile
          /\ downloadDir' = o.files
    /\ importPc' = "streaming"
    /\ UNCHANGED <<input, pos, csvBatchSize, batch, totalInserted, rowCount,
                   paused, pendingWrites, table, importResult, importError,
                   importClosed, skipped, writeLog, writeResults, run, firstRun>>
    /\ UNCHANGED syncVars

\* what import() can throw before the stream exists: authenticate rejects,
\* findCsvFile / existsSync find no file, extractZip finds no csv in the zip
SetupErrors == {"DB_CONNECT", "FILE_NOT_FOUND", "CSV_NOT_IN_ZIP"}

\* import(): a step before the stream throws; catch { throw } finally { close }
ImportSetupFails ==
    /\ importPc = "connecting"
    /\ importPc' = "rejected"
    /\ \/ /\ importError' = <<"DB_CONNECT">>
          /\ UNCHANGED <<downloadDir, foundFile>>
       \/ \E o \in Lookup(downloadDir) :
             /\ o.error # <<>>
             /\ importError' = o.error
             /\ foundFile' = o.foundFile
             /\ downloadDir' = o.files
    /\ importClosed' = importClosed + 1
    /\ UNCHANGED <<input, pos, csvBatchSize, batch, totalInserted, rowCount,
                   paused, pendingWrites, table, importResult, skipped,
                   writeLog, writeResults, run, firstRun>>
    /\ UNCHANGED syncVars

\* stream.on('data', row => ...)
OnData ==
    /\ importPc = "streaming"
    /\ ~paused
    /\ pos < Len(input)
    /\ pos' = pos + 1
    /\ rowCount' = rowCount + 1
    /\ LET row == input[pos + 1]
       IN IF RowInvalid(row)
          THEN /\ skipped' = skipped + 1
               /\ UNCHANGED <<batch, paused, pendingWrites, writeLog>>
          ELSE LET b2 == Append(batch, ToRecord(row))
               IN /\ skipped' = skipped
                  /\ IF BatchFull(b2)
                     THEN LET w == [kind |-> "threshold", batch |-> b2]
                          IN /\ paused' = streamPause(paused)
                             /\ batch' = <<>>
                             /\ pendingWrites' = Append(pendingWrites, w)
                             /\ writeLog' = Append(writeLog, w)
                     ELSE /\ batch' = b2
                          /\ UNCHANGED <<paused, pendingWrites, writeLog>>
    /\ UNCHANGED <<input, csvBatchSize, totalInserted, table, importPc,
                   importResult, importError, importClosed, writeResults, run,
                   firstRun,
                   downloadDir, foundFile>>
    /\ UNCHANGED syncVars

\* stream.on('end', async () => ...) up to its await, or up to resolve
OnEnd ==
    /\ importPc = "streaming"
    /\ ~paused
    /\ pos = Len(input)
    /\ IF HasRemaining(batch)
       THEN LET w == [kind |-> "final", batch |-> batch]
            IN /\ pendingWrites' = Append(pendingWrites, w)
               /\ writeLog' = Append(writeLog, w)
               /\ importPc' = "ending"
               /\ UNCHANGED <<importResult, importClosed>>
       ELSE /\ importPc' = "resolved"
            /\ importResult' = <<totalInserted>>
            /\ importClosed' = importClosed + 1
            /\ UNCHANGED <<pendingWrites, writeLog>>
    /\ UNCHANGED <<input, pos, csvBatchSize, batch, totalInserted, rowCount,
                   paused, table, importError, skipped, writeResults, run,
                   firstRun,
                   downloadDir, foundFile>>
    /\ UNCHANGED syncVars

\* stream.on('error', err => reject(err)); catch { throw } finally { close }
StreamError ==
    /\ importPc = "streaming"
    /\ importPc' = "rejected"
    /\ importError' = <<"stream">>
    /\ importClosed' = importClosed + 1
    /\ UNCHANGED <<input, pos, csvBatchSize, batch, totalInserted, rowCount,
                   paused, pendingWrites, table, importResult, skipped,
                   writeLog, writeResults, run, firstRun,
                   downloadDir, foundFile>>
    /\ UNCHANGED syncVars

\* fs.createReadStream(filePath).pipe(csv()): pipe() does not forward the
\* 'error' of the file stream to the csv stream, and import() registers its
\* 'error' handler on the csv stream only.  A read error of the file is an
\* 'error' event without listener: the process ends on the uncaught
\* exception, import() settles nothing and its finally block does not run.
\* A write in flight may or may not have reached the table.
FileReadError ==
    /\ importPc = "streaming"
    /\ importPc' = "crashed"
    /\ importError' = <<"read">>
    /\ pendingWrites' = <<>>
    /\ table' \in {table} \cup
                  {bulkCreate(pendingWrites[i].batch, table).table :
                      i \in 1..Len(pendingWrites)}
    /\ UNCHANGED <<input, pos, csvBatchSize, batch, totalInserted, rowCount,
                   paused, importResult, importClosed, skipped, writeLog,
                   writeResults, run, firstRun,
                   downloadDir, foundFile>>
    /\ UNCHANGED syncVars

\* a bulkCreate resolves: .then(created => ...) of the threshold flush, or
\* the rest of the 'end' handler
WriteSucceeds ==
    /\ \E i \in 1..Len(pendingWrites) :
          LET w == pendingWrites[i]
              r == bulkCreate(w.batch, table)
              total == AddInserted(totalInserted, r.created)
          IN /\ pendingWrites' = RemoveAt(pendingWrites, i)
             /\ table' = r.table
             /\ totalInserted' = total
             /\ writeResults' = Append(writeResults,
                                   [kind |-> w.kind, batch |-> w.batch, ok |-> TRUE])
             /\ IF w.kind = "threshold"
                THEN /\ paused' = streamResume(paused)
                     /\ UNCHANGED <<importPc, importResult, importClosed>>
                ELSE /\ importPc' = "resolved"
                     /\ importResult' = <<total>>
                     /\ importClosed' = importClosed + 1
                     /\ UNCHANGED paused
    /\ UNCHANGED <<input, pos, csvBatchSize, batch, rowCount, importError,
                   skipped, writeLog, run, firstRun,
                   downloadDir, foundFile>>
    /\ UNCHANGED syncVars

\* a bulkCreate rejects: .catch(err => ...) of the threshold flush, or the
\* catch of the 'end' handler
WriteFails ==
    /\ \E i \in 1..Len(pendingWrites) :
          LET w == pendingWrites[i]
          IN /\ pendingWrites' = RemoveAt(pendingWrites, i)
             /\ writeResults' = Append(writeResults,
                                   [kind |-> w.kind, batch |-> w.batch, ok |-> FALSE])
             /\ IF catchAction(w.kind) = "resume"
                THEN /\ paused' = streamResume(paused)
                     /\ UNCHANGED <<importPc, importError, importClosed>>
                ELSE /\ importPc' = "rejected"
                     /\ importError' = <<"bulkCreate">>
                     /\ importClosed' = importClosed + 1
                     /\ UNCHANGED paused
    /\ UNCHANGED <<input, pos, csvBatchSize, batch, totalInserted, rowCount,
                   table, importResult, skipped, writeLog, run, firstRun,
                   downloadDir, foundFile>>
    /\ UNCHANGED syncVars

\* the import service is run a second time on the same file and table
Rerun ==
    /\ importPc = "resolved"
    /\ run = 1
    /\ run' = 2
    /\ firstRun' = <<[result |-> importResult[1], rows |-> Len(table),
                      failed |-> Cardinality({k \in 1..Len(writeResults) :
                                                 ~writeResults[k].ok})]>>
    /\ pos' = 0
    /\ batch' = <<>>
    /\ totalInserted' = 0
    /\ rowCount' = 0
    /\ paused' = FALSE
    /\ pendingWrites' = <<>>
    /\ importPc' = "connecting"
    /\ importResult' = <<>>
    /\ importError' = <<>>
    /\ importClosed' = 0
    /\ skipped' = 0
    /\ writeLog' = <<>>
    /\ writeResults' = <<>>
    /\ foundFile' = <<>>
    /\ UNCHANGED <<input, csvBatchSize, table, downloadDir>>
    /\ UNCHANGED syncVars

----------------------------------------------------------------------------
(* sync(): configurations and specification *)

\* values of HUBSPOT_SYNC_LIMIT explored (all > 0)
Caps == {1, 2, batchSize - 1, batchSize, batchSize + 1, 150, 2 * batchSize,
         2 * batchSize + 1}

\* numbers of committed rows explored: up to MaxPages full pages plus a rest
StoreRests == {0, 1, 2, 50, batchSize - 1, batchSize, batchSize + 1, 150, 151,
               2 * batchSize, 2 * batchSize + 1}

StoreSizes == {p * pageSize + r : p \in 0..MaxPages, r \in StoreRests}

ImportIdle ==
    /\ input = <<>>
    /\ pos = 0
    /\ csvBatchSize = 1
    /\ batch = <<>>
    /\ totalInserted = 0
    /\ rowCount = 0
    /\ paused = FALSE
    /\ pendingWrites = <<>>
    /\ table = <<>>
    /\ importPc = "idle"
    /\ importResult = <<>>
    /\ importError = <<>>
    /\ importClosed = 0
    /\ skipped = 0
    /\ writeLog = <<>>
    /\ writeResults = <<>>
    /\ run = 1
    /\ firstRun = <<>>
    /\ downloadDir = <<CsvFile>>
    /\ foundFile = <<>>

\* sync() has been called and nothing has run yet
SyncStart ==
    /\ storeCount \in StoreSizes
    /\ totalSynced = 0
    /\ currentBatch = <<>>
    /\ offset = 0
    /\ fetchLimit = 0
    /\ records = <<>>
    /\ recIdx = 0
    /\ sendSite = "none"
    /\ syncPc = "connecting"
    /\ throttled = 0
    /\ syncResult = <<>>
    /\ syncError = <<>>
    /\ syncClosed = 0
    /\ trace = <<>>

SyncInit ==
    /\ maxContactsToSync \in Caps
    /\ SyncStart

InitSync == SyncInit /\ ImportIdle

NextSync ==
    \/ SyncConnect
    \/ SyncConnectFails
    \/ SyncFetch
    \/ SyncFetchFails
    \/ SyncPage
    \/ RespondOk
    \/ Respond401
    \/ Respond429
    \/ Respond400
    \/ RespondOther
    \/ RetryAfterWait

SpecSync == InitSync /\ [][NextSync]_vars

----------------------------------------------------------------------------
(* sync(): what the history says *)

IsPost(i) == trace[i].type = "post"
IsResp(i, status) == trace[i].type = "resp" /\ trace[i].status = status

\* indices of the posts that were answered with success
DeliveredPosts ==
    {i \in 1..(Len(trace) - 1) : IsPost(i) /\ IsResp(i + 1, 200)}

RECURSIVE SumSizes(_)
SumSizes(S) ==
    IF S = {} THEN 0
    ELSE LET i == CHOOSE x \in S : TRUE
         IN Len(trace[i].inputs) + SumSizes(S \ {i})

Delivered == SumSizes(DeliveredPosts)

\* sizes of the outgoing calls, in call order
PostSizes ==
    LET P == {i \in 1..Len(trace) : IsPost(i)}
        Nth(k) == CHOOSE i \in P : Cardinality({j \in P : j <= i}) = k
    IN [k \in 1..Cardinality(P) |-> Len(trace[Nth(k)].inputs)]

NoRemoteError ==
    \A i \in 1..Len(trace) : trace[i].type = "resp" => trace[i].status = 200

\* C1: the running total of delivered records never exceeds the delivery
\* cap, and the value sync() returns is at most the cap.
C1_CapNeverExceeded ==
    /\ totalSynced <= maxContactsToSync
    /\ syncPc = "done" => syncResult[1] <= maxContactsToSync

\* C2: every outgoing call (first attempts, retries after throttling and
\* the final partial flush) carries between 1 and 100 entries.
C2_CallSizeBounds ==
    \A i \in 1..Len(trace) :
        IsPost(i) => Len(trace[i].inputs) >= 1 /\ Len(trace[i].inputs) <= 100

\* a finished run with a full call, a throttled retry and a partial last call
C2_Witness ==
    /\ syncPc = "done"
    /\ \E i \in 1..Len(trace) : IsResp(i, 429)
    /\ \E i \in 1..Len(trace) : IsPost(i) /\ Len(trace[i].inputs) = 100
    /\ \E i \in 1..Len(trace) : IsPost(i) /\ Len(trace[i].inputs) < 100

\* C6: with cap 150 (page size 5000, outgoing batch size 100), a run without
\* remote errors over a store of N >= 150 rows makes exactly two calls, of
\* 100 then 50 entries, and returns 150.
C6_CapScenario ==
    (/\ maxContactsToSync = 150
     /\ storeCount >= 150
     /\ syncPc = "done"
     /\ NoRemoteError)
    => /\ PostSizes = <<100, 50>>
       /\ Delivered = 150
       /\ syncResult = <<150>>

\* C7: a 429 answer is followed by the fixed wait and then by a post of the
\* identical batch, before any other post or page fetch; a batch answered
\* [429, 429, 200] is posted exactly three times and counted exactly once
\* (totalSynced is the sum of the sizes of the posts answered with success).
C7_ThrottleRetry ==
    /\ \A i \in 1..Len(trace) :
          IsResp(i, 429) =>
             /\ i > 1 /\ IsPost(i - 1)
             /\ i + 1 <= Len(trace) /\ trace[i + 1] = WaitEvent
             /\ IF i + 2 <= Len(trace)
                THEN trace[i + 2] = trace[i - 1]
                ELSE syncPc = "waiting"
    /\ \A i \in 1..Len(trace) :
          (/\ i + 7 <= Len(trace)
           /\ IsPost(i) /\ IsResp(i + 1, 429) /\ IsResp(i + 4, 429)
           /\ IsResp(i + 7, 200))
          => /\ trace[i + 3] = trace[i] /\ trace[i + 6] = trace[i]
             /\ DeliveredPosts \cap {i, i + 3, i + 6} = {i + 6}
    /\ syncPc \in {"loop", "fetching", "done"} => totalSynced = Delivered

\* a batch of 100 answered 429, 429, 200 in a run that went on to finish
C7_Witness ==
    /\ syncPc = "done"
    /\ \E i \in 1..Len(trace) :
          /\ i + 7 <= Len(trace)
          /\ IsPost(i) /\ Len(trace[i].inputs) = 100
          /\ IsResp(i + 1, 429) /\ IsResp(i + 4, 429) /\ IsResp(i + 7, 200)

\* C8: a 401 answer aborts the run with HUBSPOT_AUTH_ERROR: it is the last
\* event of the run (no retry, no further call, no further fetch), no count
\* is returned, and a 401 on the first call leaves nothing delivered.
C8_AuthFatal ==
    \A i \in 1..Len(trace) :
        IsResp(i, 401) =>
           /\ i = Len(trace)
           /\ syncPc = "failed"
           /\ syncError = <<"HUBSPOT_AUTH_ERROR">>
           /\ syncResult = <<>>
           /\ syncClosed = 1
           /\ (\A j \in 1..(i - 1) : trace[j].type # "resp")
                 => totalSynced = 0 /\ Delivered = 0

\* a 401 on a later call, after one batch was delivered
C8_Witness ==
    /\ Len(trace) > 0
    /\ IsResp(Len(trace), 401)
    /\ syncPc = "failed"
    /\ totalSynced = 100

----------------------------------------------------------------------------
(* import(): inputs and specification *)

\* the csv rows explored: padded name, empty name, lowercase sex, missing
\* Sex column, plain valid row
RowValues ==
    { [Name |-> <<" ", "A", " ">>, Sex |-> <<"M">>],
      [Name |-> <<>>, Sex |-> <<"F">>],
      [Name |-> <<"B">>, Sex |-> <<"m">>],
      [Name |-> <<"B">>],
      [Name |-> <<"A">>, Sex |-> <<"F">>] }

Inputs == UNION {[1..n -> RowValues] : n \in 0..MaxRows}

SyncIdle ==
    /\ maxContactsToSync = 1
    /\ storeCount = 0
    /\ totalSynced = 0
    /\ currentBatch = <<>>
    /\ offset = 0
    /\ fetchLimit = 0
    /\ records = <<>>
    /\ recIdx = 0
    /\ sendSite = "none"
    /\ syncPc = "idle"
    /\ throttled = 0
    /\ syncResult = <<>>
    /\ syncError = <<>>
    /\ syncClosed = 0
    /\ trace = <<>>

ImportInit ==
    /\ input \in Inputs
    /\ pos = 0
    /\ csvBatchSize \in 1..MaxBatchSize
    /\ batch = <<>>
    /\ totalInserted = 0
    /\ rowCount = 0
    /\ paused = FALSE
    /\ pendingWrites = <<>>
    /\ table = <<>>
    /\ importPc = "connecting"
    /\ importResult = <<>>
    /\ importError = <<>>
    /\ importClosed = 0
    /\ skipped = 0
    /\ writeLog = <<>>
    /\ writeResults = <<>>
    /\ run = 1
    /\ firstRun = <<>>
    /\ downloadDir = <<CsvFile>>
    /\ foundFile = <<>>

InitImport == ImportInit /\ SyncIdle

NextImport ==
    \/ ImportConnect
    \/ ImportSetupFails
    \/ OnData
    \/ OnEnd
    \/ StreamError
    \/ FileReadError
    \/ WriteSucceeds
    \/ WriteFails
    \/ Rerun

SpecImport == InitImport /\ [][NextImport]_vars

----------------------------------------------------------------------------
(* import(): what the history says *)

RECURSIVE Flatten(_)
Flatten(log) ==
    IF log = <<>> THEN <<>> ELSE Head(log).batch \o Flatten(Tail(log))

\* the Records of the valid rows of inp, in input order
RECURSIVE Produced(_)
Produced(inp) ==
    IF inp = <<>> THEN <<>>
    ELSE IF RowInvalid(Head(inp)) THEN Produced(Tail(inp))
         ELSE <<ToRecord(Head(inp))>> \o Produced(Tail(inp))

FailedWrites == {k \in 1..Len(writeResults) : ~writeResults[k].ok}

\* records of the batches whose bulk write failed
recordsLost ==
    Len(Flatten([k \in 1..Len(writeResults) |->
                    IF writeResults[k].ok
                    THEN [batch |-> <<>>]
                    ELSE [batch |-> writeResults[k].batch]]))

\* C3: at most one bulk write is outstanding, the stream is paused exactly
\* while a threshold-triggered write is outstanding, and while a write is
\* outstanding no row is consumed and the 'end' handler does not run.
C3_OneWriteStreamSuspended ==
    /\ [](/\ Len(pendingWrites) <= 1
          /\ (paused /\ importPc # "crashed") => pendingWrites # <<>>
          /\ (importPc = "streaming" /\ pendingWrites # <<>>) => paused)
    /\ [][pendingWrites # <<>> =>
            /\ rowCount' = rowCount
            /\ pos' = pos
            /\ ~(importPc = "streaming" /\ importPc' \in {"ending", "resolved"})
         ]_vars

\* a threshold-triggered write is outstanding while rows are still to come
C3_Witness ==
    /\ importPc = "streaming"
    /\ paused
    /\ Len(pendingWrites) = 1
    /\ pendingWrites[1].kind = "threshold"
    /\ pos < Len(input)

\* C4: when import() completes, rows read = rows skipped + records reported
\* inserted + records of the batches whose write failed (recordsLost).
C4_Conservation ==
    importPc = "resolved" =>
       /\ rowCount = Len(input)
       /\ rowCount = skipped + importResult[1] + recordsLost

\* a completed run with skipped rows, a lost batch and two good writes
C4_Witness ==
    /\ importPc = "resolved"
    /\ skipped > 0
    /\ recordsLost > 0
    /\ Cardinality({k \in 1..Len(writeResults) : writeResults[k].ok}) >= 2

\* C5: a second import() run on the same input, against the table left by a
\* first run in which no write failed, adds no row and reports 0 inserted.
C5_SecondRunAddsNothing ==
    (run = 2 /\ importPc = "resolved" /\ firstRun[1].failed = 0) =>
       /\ Len(table) = firstRun[1].rows
       /\ importResult = <<0>>

C10_FinalFlush ==
    LET valid == Len(Produced(input))
        finals == {k \in 1..Len(writeLog) : writeLog[k].kind = "final"}
    IN /\ importPc = "ending" =>
             /\ pendingWrites = <<[kind |-> "final", batch |-> batch]>>
             /\ batch # <<>>
             /\ importResult = <<>>
       /\ importPc = "resolved" =>
             /\ pendingWrites = <<>>
             /\ Flatten(writeLog) = Produced(input)
             /\ Len(writeResults) = Len(writeLog)
             /\ finals = IF valid % csvBatchSize = 0 THEN {}
                         ELSE {Len(writeLog)}
             /\ \A k \in finals :
                   Len(writeLog[k].batch) = valid % csvBatchSize

\* a completed run whose last write was a partial batch after a full one
C10_Witness ==
    /\ importPc = "resolved"
    /\ Len(writeLog) >= 2
    /\ writeLog[Len(writeLog)].kind = "final"
    /\ Len(writeLog[Len(writeLog)].batch) < csvBatchSize

----------------------------------------------------------------------------
(* import(): row validation and normalization *)

FieldMissingOrEmpty(row, col) == col \notin DOMAIN row \/ Len(row[col]) = 0

\* the rows among the first n of the input that lack a Name or a Sex
RowsToSkip(n) ==
    {k \in 1..n : \/ FieldMissingOrEmpty(input[k], "Name")
                  \/ FieldMissingOrEmpty(input[k], "Sex")}

\* the Records made so far in the run: those handed to the sink, then those
\* still in the accumulator
Accumulated ==
    Flatten(writeLog) \o
       (IF \E k \in 1..Len(writeLog) : writeLog[k].kind = "final"
        THEN <<>> ELSE batch)

\* C11: a row whose Name or Sex is missing or empty is counted as read and
\* skipped: it gives no Record, reaches no batch and no table row, and never
\* makes import() fail; every other row gives exactly one Record.
C11_InvalidRowsSkipped ==
    /\ rowCount = pos
    /\ skipped = Cardinality(RowsToSkip(pos))
    /\ Len(Accumulated) = pos - Cardinality(RowsToSkip(pos))
    /\ Len(table) <= Len(Accumulated)
                     + (IF run = 2 THEN firstRun[1].rows ELSE 0)
    /\ importPc = "rejected" =>
          importError \in {<<"stream">>, <<"bulkCreate">>}
                          \cup {<<e>> : e \in SetupErrors}

\* a completed run that skipped two rows and stored at least one Record
C11_Witness ==
    /\ importPc = "resolved"
    /\ run = 1
    /\ Cardinality(RowsToSkip(pos)) >= 2
    /\ \E k \in RowsToSkip(pos) : "Sex" \notin DOMAIN input[k]
    /\ \E k \in RowsToSkip(pos) : "Name" \in DOMAIN input[k] /\ input[k]["Name"] = <<>>
    /\ Len(table) >= 1

\* single-row inputs over every Name and Sex text up to MaxText characters
Texts(chars, n) == UNION {[1..k -> chars] : k \in 0..n}

NameChars == {" ", "A"}
SexChars == {" ", "M", "m", "X", "F"}

RowsToNormalize ==
    [Name : Texts(NameChars, MaxText), Sex : Texts(SexChars, MaxText)]

RowsInit ==
    /\ input \in {<<r>> : r \in RowsToNormalize}
    /\ pos = 0
    /\ csvBatchSize = 1
    /\ batch = <<>>
    /\ totalInserted = 0
    /\ rowCount = 0
    /\ paused = FALSE
    /\ pendingWrites = <<>>
    /\ table = <<>>
    /\ importPc = "connecting"
    /\ importResult = <<>>
    /\ importError = <<>>
    /\ importClosed = 0
    /\ skipped = 0
    /\ writeLog = <<>>
    /\ writeResults = <<>>
    /\ run = 1
    /\ firstRun = <<>>
    /\ downloadDir = <<CsvFile>>
    /\ foundFile = <<>>

InitRows == RowsInit /\ SyncIdle

SpecRows == InitRows /\ [][NextImport]_vars

\* t is s without its leading and trailing whitespace
IsTrimOf(t, s) ==
    \E i \in 1..(Len(s) + 1), j \in 0..Len(s) :
        /\ t = SubSeq(s, i, j)
        /\ \A k \in 1..Len(s) : (k < i \/ k > j) => s[k] \in Whitespace
        /\ t # <<>> => t[1] \notin Whitespace /\ t[Len(t)] \notin Whitespace

\* the input row the k-th Record of the run was made from
RowOfRecord(k) ==
    LET kept == (1..pos) \ RowsToSkip(pos)
    IN input[CHOOSE i \in kept : Cardinality({j \in kept : j <= i}) = k]

\* C12: the Record of a valid row has the row's Name trimmed as name, and
\* sex M exactly when the trimmed Sex text is "M", F for every other text.
C12_Normalization ==
    \A k \in 1..Len(Accumulated) :
        LET rec == Accumulated[k]
            row == RowOfRecord(k)
        IN /\ IsTrimOf(rec.name, row["Name"])
           /\ rec.sex \in {<<"M">>, <<"F">>}
           /\ rec.sex = <<"M">> <=> IsTrimOf(<<"M">>, row["Sex"])

\* a stored row made from a padded Name and a padded "M"
C12_Witness ==
    /\ importPc = "resolved"
    /\ input = <<[Name |-> <<" ", "A", " ">>, Sex |-> <<" ", "M", " ">>]>>
    /\ table = <<[id |-> 1, name |-> <<"A">>, sex |-> <<"M">>]>>

----------------------------------------------------------------------------
(* sync(): termination of the loop *)

FetchCount == Cardinality({i \in 1..Len(trace) : trace[i].type = "fetch"})

\* C13: a run stops (returns its count) exactly when the delivered total has
\* reached the cap or a page came back empty: while it goes on the total is
\* below the cap and the last page had rows; when it has returned, one of the
\* two holds, the outgoing batch is empty and the count is what was delivered.
C13_StopsAtCapOrExhaustion ==
    /\ syncPc = "done" =>
          /\ totalSynced >= maxContactsToSync \/ records = <<>>
          /\ currentBatch = <<>>
          /\ syncResult = <<totalSynced>>
          /\ totalSynced = Delivered
    /\ syncPc \in {"loop", "fetching"} =>
          /\ totalSynced < maxContactsToSync
          /\ FetchCount > (IF syncPc = "fetching" THEN 1 ELSE 0) =>
                records # <<>>
    /\ (syncPc \in {"sending", "waiting"} /\ sendSite = "loop") =>
          totalSynced < maxContactsToSync

\* a run that returned after an empty page made it flush a partial batch
C13_Witness ==
    /\ syncPc = "done"
    /\ records = <<>>
    /\ totalSynced < maxContactsToSync
    /\ totalSynced % batchSize # 0
    /\ totalSynced > batchSize

\* a run that returned because the cap was reached, with rows left unread
C13_WitnessCap ==
    /\ syncPc = "done"
    /\ records # <<>>
    /\ totalSynced = maxContactsToSync
    /\ storeCount > maxContactsToSync

----------------------------------------------------------------------------
(* import(): order of the hand-over *)

\* the (name, sex) of the table rows, in ascending id
TableRecords == [k \in 1..Len(table) |-> [name |-> table[k].name, sex |-> table[k].sex]]

\* C14: the batches handed to the sink, concatenated in the order the writes
\* are issued (followed by what the accumulator still holds), are the Records
\* of the valid rows read so far, in input order; when no write failed the
\* table of a completed first run holds exactly these Records in that order.
C14_HandOverInOrder ==
    /\ Accumulated = Produced(SubSeq(input, 1, pos))
    /\ (importPc = "resolved" /\ FailedWrites = {}) =>
          /\ Flatten(writeLog) = Produced(input)
          /\ Flatten(writeResults) = Produced(input)
          /\ run = 1 => TableRecords = Produced(input)

\* a completed run without failed write that handed over three batches
C14_Witness ==
    /\ importPc = "resolved"
    /\ run = 1
    /\ FailedWrites = {}
    /\ Len(writeLog) >= 3
    /\ Len(table) >= 3
    /\ skipped >= 1

----------------------------------------------------------------------------
(* sync(): fatal answers *)

----------------------------------------------------------------------------
(* import(): read errors *)

\* C16: after a read error of the row source import() has failed with that
\* error (its promise rejected, through catch and finally), it has returned
\* no count, and the records still in the accumulator are in no write.
C16_ReadErrorRejects ==
    importError \in {<<"stream">>, <<"read">>} =>
       /\ importPc = "rejected"
       /\ importClosed = 1
       /\ importResult = <<>>
       /\ Len(Flatten(writeLog)) + Len(batch) = Len(Accumulated)

----------------------------------------------------------------------------
(* sync(): upsert keys, throttling *)

\* the entries of all the outgoing calls made so far
SentEntries ==
    UNION {{trace[i].inputs[k] : k \in 1..Len(trace[i].inputs)} :
              i \in {j \in 1..Len(trace) : IsPost(j)}}

\* C17: the upsert key (id) is unique per Record: entries made from Records
\* with different (name, sex) carry different keys, and entries made from
\* the same Record carry the same key.
C17_KeyUniquePerRecord ==
    \A a \in SentEntries, b \in SentEntries :
        (/\ a.properties.firstname = b.properties.firstname
         /\ a.properties.lastname = b.properties.lastname)
        <=> a.id = b.id

\* C18: a 429 answer never fails or ends the run: whatever the number of
\* throttles so far, as long as the last answer is a 429 the run is waiting
\* or re-sending the same batch, with no count and no error; a failed run
\* never ends on a 429 answer.
C18_ThrottleNeverSurfaces ==
    /\ \A i \in 1..Len(trace) :
          (IsResp(i, 429) /\ \A j \in (i + 1)..Len(trace) : trace[j].type # "resp")
          => /\ syncPc \in {"waiting", "sending"}
             /\ syncResult = <<>>
             /\ syncError = <<>>
             /\ syncClosed = 0
             /\ \A j \in (i + 1)..Len(trace) :
                   trace[j] = WaitEvent \/ trace[j] = trace[i - 1]
    /\ syncPc = "failed" =>
          /\ syncError # <<>>
          /\ \A i \in 1..Len(trace) :
                (i = Len(trace) /\ trace[i].type = "resp") =>
                    trace[i].status \in {401, 400} \cup OtherStatuses

\* the same batch throttled twice in a row, the run still waiting
C18_Witness ==
    /\ syncPc = "waiting"
    /\ Len(trace) >= 6
    /\ IsResp(Len(trace) - 1, 429)
    /\ IsResp(Len(trace) - 4, 429)
    /\ trace[Len(trace) - 2] = trace[Len(trace) - 5]

----------------------------------------------------------------------------
(* import(): batch sizes *)

\* C19: every batch handed to the sink has between 1 and threshold Records,
\* a threshold-triggered batch has exactly threshold Records, and the
\* accumulator is empty right after such a batch was drained (between two
\* handlers it always holds fewer than threshold Records).
C19_BatchSizes ==
    /\ [](/\ \A k \in 1..Len(writeLog) :
                /\ Len(writeLog[k].batch) >= 1
                /\ Len(writeLog[k].batch) <= csvBatchSize
                /\ writeLog[k].kind = "threshold" =>
                      Len(writeLog[k].batch) = csvBatchSize
          /\ Len(batch) < csvBatchSize)
    /\ [][(/\ Len(writeLog') = Len(writeLog) + 1
           /\ writeLog'[Len(writeLog')].kind = "threshold")
          => batch' = <<>>]_vars

\* a run with threshold 2 that issued a full batch and then a final one of 1
C19_Witness ==
    /\ csvBatchSize = 2
    /\ Len(writeLog) = 2
    /\ writeLog[1].kind = "threshold" /\ Len(writeLog[1].batch) = 2
    /\ writeLog[2].kind = "final" /\ Len(writeLog[2].batch) = 1

----------------------------------------------------------------------------
(* sync() against a remote that accepts every call: paging *)

\* caps explored for paging: the small ones, and caps above one page
PagingCaps == Caps \cup {pageSize, pageSize + 150}

InitPaging ==
    /\ maxContactsToSync \in PagingCaps
    /\ SyncStart
    /\ ImportIdle

NextPaging ==
    \/ SyncConnect
    \/ SyncFetch
    \/ SyncPage
    \/ RespondOk

SpecPaging == InitPaging /\ [][NextPaging]_vars

FetchIndices == {i \in 1..Len(trace) : trace[i].type = "fetch"}

\* number of entries in the calls answered with success
DeliveredEntries ==
    Cardinality({<<i, k>> \in DeliveredPosts \X (1..batchSize) :
                    k <= Len(trace[i].inputs)})

\* C20: every page fetch asks for a limit that is > 0, at most pageSize and
\* at most cap minus the records delivered so far (it is the smaller of the
\* two); the offset does not follow the shrunk limit: it is pageSize times
\* the number of fetches made before.
C20_FetchLimitBounds ==
    /\ syncPc = "fetching" =>
          /\ trace[Len(trace)] = FetchEvent(fetchLimit, offset)
          /\ totalSynced = DeliveredEntries
          /\ fetchLimit >= 1
          /\ fetchLimit <= pageSize
          /\ fetchLimit <= maxContactsToSync - DeliveredEntries
          /\ fetchLimit = pageSize \/ fetchLimit = maxContactsToSync - DeliveredEntries
          /\ offset = pageSize * (Cardinality(FetchIndices) - 1)
    /\ \A i \in FetchIndices :
          /\ trace[i].limit >= 1 /\ trace[i].limit <= pageSize
          /\ trace[i].offset = pageSize * Cardinality({j \in FetchIndices : j < i})

\* the second fetch of a run with cap 150 over more than one page of rows:
\* 100 entries are delivered, the limit is shrunk to 50 and the offset has
\* moved by a whole page
C20_Witness ==
    /\ syncPc = "fetching"
    /\ maxContactsToSync = 150
    /\ totalSynced = batchSize
    /\ fetchLimit = 50
    /\ offset = pageSize
    /\ \E i \in FetchIndices : trace[i].limit = 150 /\ trace[i].offset = 0

\* the first fetch of a run whose cap exceeds a page asks for one page
C20_WitnessWholePage ==
    /\ syncPc = "fetching"
    /\ maxContactsToSync > pageSize
    /\ fetchLimit = pageSize
    /\ offset = 0

----------------------------------------------------------------------------
(* sync(): offset bookkeeping *)

\* C21: the offset starts at 0 and moves only by pageSize, between the end of
\* one page and the next fetch, whatever the page returned or delivered: the
\* k-th fetch of a run (k = 0, 1, ...) is made at offset k * pageSize.
C21_OffsetSteps ==
    /\ [](/\ FetchIndices = {} => offset = 0
          /\ \A i \in FetchIndices :
                trace[i].offset =
                    pageSize * Cardinality({j \in FetchIndices : j < i})
          /\ syncPc \in {"fetching", "sending", "waiting"} =>
                offset = pageSize * (Cardinality(FetchIndices) - 1)
          /\ syncPc = "loop" => offset = pageSize * Cardinality(FetchIndices))
    /\ [][offset' # offset =>
             /\ offset' = offset + pageSize
             /\ syncPc \in {"fetching", "sending"}
             /\ syncPc' = "loop"]_vars

\* the third fetch of a run: two pages were read, fewer than 2 * pageSize rows
\* were returned and fewer still delivered, and the offset is 2 * pageSize
C21_Witness ==
    /\ syncPc = "fetching"
    /\ Cardinality(FetchIndices) = 3
    /\ offset = 2 * pageSize
    /\ totalSynced = 2 * batchSize
    /\ currentBatch # <<>>

----------------------------------------------------------------------------
(* sync(): order of the rows read and sent *)

\* the id of the row whose name is s (NameOf is one-to-one)
RECURSIVE IdOfName(_)
IdOfName(s) ==
    IF s = <<>> THEN 0
    ELSE 4 * IdOfName(SubSeq(s, 1, Len(s) - 1))
         + (CHOOSE d \in 1..4 : NameLetters[d] = s[Len(s)])

\* store position of entry k of the call at trace[i]
EntryId(i, k) == IdOfName(trace[i].inputs[k].properties.firstname)

\* C22: the records carried by the successful calls of a run, taken in call
\* order, are in strictly increasing store position (ascending id).
C22_SentInSourceOrder ==
    /\ \A i \in DeliveredPosts :
          \A k \in 1..(Len(trace[i].inputs) - 1) :
              EntryId(i, k) < EntryId(i, k + 1)
    /\ \A i, j \in DeliveredPosts :
          i < j => EntryId(i, Len(trace[i].inputs)) < EntryId(j, 1)

\* C23: every page query asks for ascending id, and the page it reads is the
\* one of the ascending-id order, so (limit, offset) determines the rows read.
C23_PagesOrderedById ==
    /\ [](\A i \in FetchIndices :
             /\ "order" \in DOMAIN trace[i]
             /\ trace[i].order = <<"id", "ASC">>)
    /\ [][(syncPc = "fetching" /\ syncPc' # "fetching") =>
             records' = findAll(fetchLimit, offset, "PRIMARY")]_vars

----------------------------------------------------------------------------
(* sync(): one request at a time *)

\* calls posted and not yet answered after the first n events
OutstandingAt(n) ==
    Cardinality({i \in 1..n : IsPost(i)})
    - Cardinality({i \in 1..n : trace[i].type = "resp"})

\* calls posted and not yet answered
OutstandingCalls == OutstandingAt(Len(trace))

\* page fetches issued and not yet answered
OutstandingFetches == IF syncPc = "fetching" THEN 1 ELSE 0

\* C24: at any time at most one remote call or one page fetch is out, never
\* both; a fetch is issued only when no call is out, and a call (a throttle
\* retry included) only after the call before it has returned.
C24_Sequential ==
    /\ OutstandingCalls \in {0, 1}
    /\ OutstandingCalls + OutstandingFetches <= 1
    /\ OutstandingCalls = 1 <=> syncPc = "sending"
    /\ \A k \in 1..Len(trace) :
          trace[k].type \in {"post", "fetch"} => OutstandingAt(k - 1) = 0
    /\ \A k \in 1..(Len(trace) - 1) :
          IsPost(k) => trace[k + 1].type = "resp"

\* a throttle retry is out, after a page fetch and a first call that returned
C24_Witness ==
    /\ syncPc = "sending"
    /\ Len(trace) = 5
    /\ trace[1].type = "fetch"
    /\ IsPost(2)
    /\ IsResp(3, 429)
    /\ trace[4].type = "wait"
    /\ IsPost(5)

----------------------------------------------------------------------------
(* sync(): outgoing batches and page boundaries *)

PostIndices == {i \in 1..Len(trace) : IsPost(i)}

\* a call carrying fewer than batchSize entries is issued in this step
PartialPostIssued ==
    /\ Len(trace') > Len(trace)
    /\ trace'[Len(trace')].type = "post"
    /\ Len(trace'[Len(trace')].inputs) < batchSize

\* the calls trace[i] .. trace[j] are attempts of one batch: the first post
\* of it and throttle retries
SameBatchAttempts(i, j) ==
    /\ trace[j].inputs = trace[i].inputs
    /\ \A k \in i..j : /\ trace[k].type # "fetch"
                       /\ trace[k].type = "resp" => trace[k].status = 429

\* a partial batch is sent only once the cap is reached or a page came back
\* empty; until then it is kept and the rows of the next page are appended
PartialBatchKept ==
    /\ [](syncPc \in {"loop", "fetching"} => Len(currentBatch) < batchSize)
    /\ [][PartialPostIssued =>
             records' = <<>> \/ totalSynced' >= maxContactsToSync]_vars
    /\ [][(syncPc = "fetching" /\ records' # <<>>) =>
             /\ Len(currentBatch') >= Len(currentBatch)
             /\ SubSeq(currentBatch', 1, Len(currentBatch)) = currentBatch]_vars

\* C25 as stated: a batch left partial at the end of a page is not sent while
\* the cap is not reached and the source not exhausted: it is kept and the
\* rows of the next page are appended to it, so every call but the last of a
\* run carries exactly batchSize entries.
C25_EveryCallButLastFull ==
    /\ [](\A i, j \in PostIndices : i < j => Len(trace[i].inputs) = batchSize)
    /\ PartialBatchKept

\* C25, amended: as above, but a partial call may also be followed by the
\* throttle retries of the same batch: every call that is not an attempt of
\* the last batch of the run carries exactly batchSize entries.
C25_BatchesSpanPages ==
    /\ [](\A i, j \in PostIndices :
             i < j => \/ Len(trace[i].inputs) = batchSize
                      \/ SameBatchAttempts(i, j))
    /\ PartialBatchKept

\* a call of 100 entries is out whose first 50 entries were left over by the
\* first page and whose last 50 come from the second page
C25_Witness ==
    /\ syncPc = "sending"
    /\ sendSite = "loop"
    /\ offset = pageSize
    /\ totalSynced = batchSize
    /\ Len(currentBatch) = batchSize
    /\ Len(records) = 50
    /\ currentBatch[51] = formatContactForHubSpot(records[1])

----------------------------------------------------------------------------
(* sendBatchToHubSpot: failures that are neither 401, 429 nor 400 *)

----------------------------------------------------------------------------
(* import(): termination *)

\* rows of the inputs of the termination check: a valid and an invalid one
LiveRowValues ==
    { [Name |-> <<"A">>, Sex |-> <<"F">>],
      [Name |-> <<"B">>] }

LiveInputs == UNION {[1..n -> LiveRowValues] : n \in 0..MaxRows}

InitLive ==
    /\ ImportInit
    /\ input \in LiveInputs
    /\ SyncIdle

NextLive ==
    \/ ImportConnect
    \/ ImportSetupFails
    \/ OnData
    \/ OnEnd
    \/ StreamError
    \/ FileReadError
    \/ WriteSucceeds
    \/ WriteFails

\* the event loop runs the handler of every event that is due: the rows and
\* the end of a flowing stream, and the settlement of every started write
SpecLive ==
    /\ InitLive
    /\ [][NextLive]_vars
    /\ WF_vars(ImportConnect)
    /\ WF_vars(OnData)
    /\ WF_vars(OnEnd)
    /\ WF_vars(WriteSucceeds \/ WriteFails)

\* a threshold write fails in this step
ThresholdWriteFails ==
    /\ Len(writeResults') = Len(writeResults) + 1
    /\ writeResults'[Len(writeResults')].kind = "threshold"
    /\ ~writeResults'[Len(writeResults')].ok

----------------------------------------------------------------------------
(* sync(): termination *)

\* the remote answers the call that is out
RemoteAnswers ==
    \/ RespondOk
    \/ Respond401
    \/ Respond429
    \/ Respond400
    \/ RespondOther

\* caps of the termination check: below and above one outgoing batch
LiveCaps == {1, 150, 2 * batchSize + 1}

\* store sizes of the termination check
LiveStoreSizes == {p * pageSize + r : p \in 0..MaxPages, r \in {0, 2, 151}}

InitSyncLive ==
    /\ maxContactsToSync \in LiveCaps
    /\ SyncStart
    /\ storeCount \in LiveStoreSizes
    /\ ImportIdle

\* every awaited promise settles: the connection, each page fetch, each
\* remote call and each wait; a run is throttled at most MaxThrottles times
SpecSyncLive ==
    /\ InitSyncLive
    /\ [][NextSync]_vars
    /\ WF_vars(SyncConnect)
    /\ WF_vars(SyncFetch)
    /\ WF_vars(SyncPage)
    /\ WF_vars(RemoteAnswers)
    /\ WF_vars(RetryAfterWait)

\* C28: with finitely many throttles, and every fetch and call returning,
\* sync() eventually returns a count or fails with an error.
C28_SyncTerminates ==
    <>(\/ syncPc = "done" /\ syncResult # <<>>
       \/ syncPc = "failed" /\ syncError # <<>>)

\* a run that returned its count after two throttles and two page fetches
C28_Witness ==
    /\ syncPc = "done"
    /\ syncResult # <<>>
    /\ throttled >= 2
    /\ Cardinality(FetchIndices) >= 2

----------------------------------------------------------------------------
(* sequelize.close() *)

\* C29: every run of import() and of sync() that has ended, with a count or
\* with a failure at any step, has called sequelize.close() exactly once, and
\* no run calls it before it ends.
C29_ClosedOnEveryExit ==
    /\ importPc \in {"resolved", "rejected", "crashed"} => importClosed = 1
    /\ importPc \in {"connecting", "streaming", "ending"} => importClosed = 0
    /\ syncPc \in {"done", "failed"} => syncClosed = 1
    /\ syncPc \in {"connecting", "loop", "fetching", "sending", "waiting"} =>
          syncClosed = 0

----------------------------------------------------------------------------
(* import(): validation and normalization together *)

\* C30: every Record that import() puts in a batch has a name that is not
\* empty (after the trim), whatever the row, rows whose Name or Sex is only
\* whitespace included.
C30_RecordNameNonEmpty ==
    /\ \A k \in 1..Len(batch) : batch[k].name # <<>>
    /\ \A w \in 1..Len(writeLog) :
          \A k \in 1..Len(writeLog[w].batch) : writeLog[w].batch[k].name # <<>>

----------------------------------------------------------------------------
(* sync(): which rows of the store are delivered *)

\* ids of the rows carried by the calls answered with success
DeliveredIds ==
    {EntryId(i, k) : <<i, k>> \in
        {<<i, k>> \in DeliveredPosts \X (1..batchSize) :
            k <= Len(trace[i].inputs)}}

\* C31: the rows delivered by a run that has returned are a prefix of the
\* store without gap: a delivered row at position i means every row below i
\* was delivered too.
C31_GapFreePrefix ==
    syncPc = "done" =>
        \A x \in DeliveredIds : \A y \in 1..(x - 1) : y \in DeliveredIds

\* C35: no row of the store is carried by two successful calls of a run (nor
\* twice by one): the delivered entries are as many as the delivered rows.
C35_DeliveredOnce ==
    Cardinality(DeliveredIds) = DeliveredEntries

----------------------------------------------------------------------------
(* import(): totalInserted accounting *)

\* sum of created.length over the bulk writes that have succeeded
InsertedByWrites ==
    Cardinality({<<w, k>> \in (1..Len(writeResults)) \X (1..csvBatchSize) :
                    /\ writeResults[w].ok
                    /\ k <= Len(bulkCreate(writeResults[w].batch, <<>>).created)})

\* C32: when import() has resolved no bulk write is outstanding, and the
\* total returned is the sum of the counts of the writes that succeeded,
\* threshold and final; the running total is that sum whenever no write is
\* being settled.
C32_TotalIsSumOfWrites ==
    /\ totalInserted = InsertedByWrites
    /\ importPc = "resolved" =>
          /\ pendingWrites = <<>>
          /\ Len(writeResults) = Len(writeLog)
          /\ importResult = <<InsertedByWrites>>

\* a resolved run whose count adds a successful threshold write of two
\* records and a successful final write of one
C32_Witness ==
    /\ importPc = "resolved"
    /\ Len(writeResults) = 2
    /\ writeResults[1].kind = "threshold" /\ writeResults[1].ok
    /\ writeResults[2].kind = "final" /\ writeResults[2].ok
    /\ importResult = <<3>>

----------------------------------------------------------------------------
(* sync(): totalSynced accounting *)

\* C33: totalSynced is at every point the number of entries of the calls
\* answered with success so far: attempts that were throttled or failed add
\* nothing, and the count sync() returns is the number of entries delivered.
C33_TotalIsDelivered ==
    /\ totalSynced = DeliveredEntries
    /\ syncPc = "done" => syncResult = <<DeliveredEntries>>

\* a returned run that delivered a full and a partial batch and was throttled
C33_Witness ==
    /\ syncPc = "done"
    /\ syncResult = <<150>>
    /\ throttled >= 1
    /\ Cardinality(DeliveredPosts) = 2
    /\ Cardinality(PostIndices) >= 3

----------------------------------------------------------------------------
(* import(): sequelize.close() and writes in flight *)

\* C34: sequelize.close() is never called while a bulk write is outstanding,
\* whatever the order of rows, write completions and a stream error.
C34_NoCloseWhileWriting ==
    importClosed >= 1 => pendingWrites = <<>>

----------------------------------------------------------------------------
(* import(): the file lookup over directory listings *)

\* the row sequences of the lookup check: no row, a valid or an invalid row
LookupInputs == UNION {[1..n -> LiveRowValues] : n \in 0..1}

InitLookup ==
    /\ input \in LookupInputs
    /\ pos = 0
    /\ csvBatchSize = 1
    /\ batch = <<>>
    /\ totalInserted = 0
    /\ rowCount = 0
    /\ paused = FALSE
    /\ pendingWrites = <<>>
    /\ table = <<>>
    /\ importPc = "connecting"
    /\ importResult = <<>>
    /\ importError = <<>>
    /\ importClosed = 0
    /\ skipped = 0
    /\ writeLog = <<>>
    /\ writeResults = <<>>
    /\ run = 1
    /\ firstRun = <<>>
    /\ downloadDir \in Listings
    /\ foundFile = <<>>
    /\ SyncIdle

SpecLookup == InitLookup /\ [][NextLive]_vars

HasZip(files) == \E k \in 1..Len(files) : endsWith(files[k].name, ".zip")

HasCsv(files) == \E k \in 1..Len(files) : endsWith(files[k].name, ".csv")

\* the first .zip of the listing has no entry that is a file with '.csv' in
\* its name
ZipWithoutCsv(files) ==
    /\ HasZip(files)
    /\ LET z == files[CHOOSE k \in 1..Len(files) :
                        /\ endsWith(files[k].name, ".zip")
                        /\ \A j \in 1..(k - 1) : ~endsWith(files[j].name, ".zip")]
       IN \A k \in 1..Len(z.entries) :
             z.entries[k].isDirectory \/ ~includes(z.entries[k].entryName, ".csv")

====
